---- MODULE Spec2Model ----
(***************************************************************************)
(* Model of voice_assistant/config.py: the class-level configuration       *)
(* registry Config, populated from the process environment when the class  *)
(* body executes, and its validation entry point Config.validate_config.   *)
(*                                                                         *)
(* Strings are TLA+ strings.  Python's None is the sentinel None below;    *)
(* environment values are drawn from KeyValues and PathValues.             *)
(* A raised ValueError is modelled by its message, kept as the sequence of *)
(* the f-string's literal pieces and interpolated values (a list such as   *)
(* valid_options is interpolated element by element).                      *)
(***************************************************************************)
EXTENDS Integers, Sequences, FiniteSets, TLC

\* ------------------------------------------------------------------------
\* Bounds of the model

\* validate_config may be invoked any number of times; the model stops
\* counting after MaxCalls invocations.
MaxCalls == 2

\* A value that belongs to none of the three enumerated domains.
OutOfDomain == {"bogus"}

\* Python's None (os.getenv of an unset variable).
None == "None"

\* What a credential variable may hold in the environment: unset, set to
\* the empty string, set to a non-empty string.
KeyValues == {None, "", "sk-123"}

\* What the two non-credential variables may hold.
PathValues == {None, "/opt/model"}

\* ------------------------------------------------------------------------
\* The environment variables the class body reads (lines 29, 41-46)

KeyNames ==
    {"OPENAI_API_KEY", "GROQ_API_KEY", "DEEPGRAM_API_KEY",
     "ELEVENLABS_API_KEY", "CARTESIA_API_KEY"}

PathNames == {"PIPER_SERVER_URL", "LOCAL_MODEL_PATH"}

EnvNames == KeyNames \cup PathNames

Environments ==
    {e \in [EnvNames -> KeyValues \cup PathValues] :
        /\ \A n \in KeyNames : e[n] \in KeyValues
        /\ \A n \in PathNames : e[n] \in PathValues}

\* ------------------------------------------------------------------------
\* Compiled-in constants of the class body

DEFAULT_TRANSCRIPTION_MODEL == "deepgram"
DEFAULT_RESPONSE_MODEL == "openai"
DEFAULT_TTS_MODEL == "openai"
PIPER_OUTPUT_FILE == "output.wav"
OLLAMA_LLM == "llama3:8b"
GROQ_LLM == "llama3-8b-8192"
OPENAI_LLM == "gpt-4o"
TTS_PORT_LOCAL == 5150
INPUT_AUDIO == "test.mp3"

\* The lists passed to _validate_model (lines 62-67)
TRANSCRIPTION_OPTIONS == <<"openai", "groq", "deepgram", "fastwhisperapi", "local">>
RESPONSE_OPTIONS == <<"openai", "groq", "ollama", "local">>
TTS_OPTIONS ==
    <<"openai", "deepgram", "elevenlabs", "melotts", "cartesia", "local", "piper">>

Range(s) == {s[i] : i \in 1..Len(s)}

VARIABLES
    environ,   \* os.environ as os.getenv sees it once load_dotenv() has run
    Config,    \* the attributes of class Config (empty until the body runs)
    pc,        \* "start": module not yet imported; "loaded": class defined
    calls,     \* number of validate_config invocations so far (capped)
    raised,    \* what the latest invocation raised: <<>> or <<message>>
    prev       \* what the invocation before the latest raised

vars == <<environ, Config, pc, calls, raised, prev>>

\* ------------------------------------------------------------------------
\* os.getenv(name): the value, or None when the variable is unset

getenv(env, name) == env[name]

\* The class attributes after the class body (lines 24-52) has run with the
\* given three model-selection literals.
ClassBody(env, transcription, response, tts) ==
    [TRANSCRIPTION_MODEL |-> transcription,
     RESPONSE_MODEL      |-> response,
     TTS_MODEL           |-> tts,
     PIPER_SERVER_URL    |-> getenv(env, "PIPER_SERVER_URL"),
     PIPER_OUTPUT_FILE   |-> PIPER_OUTPUT_FILE,
     OLLAMA_LLM          |-> OLLAMA_LLM,
     GROQ_LLM            |-> GROQ_LLM,
     OPENAI_LLM          |-> OPENAI_LLM,
     OPENAI_API_KEY      |-> getenv(env, "OPENAI_API_KEY"),
     GROQ_API_KEY        |-> getenv(env, "GROQ_API_KEY"),
     DEEPGRAM_API_KEY    |-> getenv(env, "DEEPGRAM_API_KEY"),
     ELEVENLABS_API_KEY  |-> getenv(env, "ELEVENLABS_API_KEY"),
     LOCAL_MODEL_PATH    |-> getenv(env, "LOCAL_MODEL_PATH"),
     CARTESIA_API_KEY    |-> getenv(env, "CARTESIA_API_KEY"),
     TTS_PORT_LOCAL      |-> TTS_PORT_LOCAL,
     INPUT_AUDIO         |-> INPUT_AUDIO]

\* getattr(Config, attribute)
getattr(cfg, attribute) == cfg[attribute]

\* Variant: only None counts as missing (an "is None" test).
Truthy_NoneOnly(v) == v # None

\* Python truthiness of an optional string: None and "" are falsy.
Truthy(v) == v # None /\ v # ""

\* ------------------------------------------------------------------------
\* The two checks.  Each yields what it raises: <<>> when it returns,
\* <<message>> when it raises ValueError(message).

\* Variant: the message interpolates the model instead of the attribute.
_validate_model_ReportsValue(cfg, attribute, valid_options) ==
    LET model == getattr(cfg, attribute) IN
    IF model \notin Range(valid_options)
    THEN << <<"Invalid ", model, ". Must be one of ">> \o valid_options >>
    ELSE <<>>

_validate_model(cfg, attribute, valid_options) ==
    LET model == getattr(cfg, attribute) IN
    IF model \notin Range(valid_options)
    THEN << <<"Invalid ", attribute, ". Must be one of ">> \o valid_options >>
    ELSE <<>>

\* Variant: "or" in place of "and".
_validate_api_key_Or(cfg, model_attr, model_value, api_key_attr) ==
    IF getattr(cfg, model_attr) = model_value \/ ~Truthy(getattr(cfg, api_key_attr))
    THEN << <<api_key_attr, " is required for ", model_value, " models">> >>
    ELSE <<>>

_validate_api_key(cfg, model_attr, model_value, api_key_attr) ==
    IF getattr(cfg, model_attr) = model_value /\ ~Truthy(getattr(cfg, api_key_attr))
    THEN << <<api_key_attr, " is required for ", model_value, " models">> >>
    ELSE <<>>

\* The statements of validate_config in program order, each with what it
\* would raise if control reached it: first the three domain checks, then
\* the nine credential checks.

\* Variant: the TTS_MODEL check is left out.
DomainChecks_NoTTS(cfg) ==
    << _validate_model(cfg, "TRANSCRIPTION_MODEL", TRANSCRIPTION_OPTIONS),
       _validate_model(cfg, "RESPONSE_MODEL", RESPONSE_OPTIONS) >>

DomainChecks(cfg) ==
    << _validate_model(cfg, "TRANSCRIPTION_MODEL", TRANSCRIPTION_OPTIONS),
       _validate_model(cfg, "RESPONSE_MODEL", RESPONSE_OPTIONS),
       _validate_model(cfg, "TTS_MODEL", TTS_OPTIONS) >>

\* Variant: the TTS deepgram rule names OPENAI_API_KEY (a copied line).
KeyChecks_CopiedKey(cfg) ==
    << _validate_api_key(cfg, "TRANSCRIPTION_MODEL", "openai", "OPENAI_API_KEY"),
       _validate_api_key(cfg, "TRANSCRIPTION_MODEL", "groq", "GROQ_API_KEY"),
       _validate_api_key(cfg, "TRANSCRIPTION_MODEL", "deepgram", "DEEPGRAM_API_KEY"),
       _validate_api_key(cfg, "RESPONSE_MODEL", "openai", "OPENAI_API_KEY"),
       _validate_api_key(cfg, "RESPONSE_MODEL", "groq", "GROQ_API_KEY"),
       _validate_api_key(cfg, "TTS_MODEL", "openai", "OPENAI_API_KEY"),
       _validate_api_key(cfg, "TTS_MODEL", "deepgram", "OPENAI_API_KEY"),
       _validate_api_key(cfg, "TTS_MODEL", "elevenlabs", "ELEVENLABS_API_KEY"),
       _validate_api_key(cfg, "TTS_MODEL", "cartesia", "CARTESIA_API_KEY") >>

\* Variant: a tenth rule makes the "local" TTS require LOCAL_MODEL_PATH.
KeyChecks_LocalNeedsPath(cfg) ==
    << _validate_api_key(cfg, "TRANSCRIPTION_MODEL", "openai", "OPENAI_API_KEY"),
       _validate_api_key(cfg, "TRANSCRIPTION_MODEL", "groq", "GROQ_API_KEY"),
       _validate_api_key(cfg, "TRANSCRIPTION_MODEL", "deepgram", "DEEPGRAM_API_KEY"),
       _validate_api_key(cfg, "RESPONSE_MODEL", "openai", "OPENAI_API_KEY"),
       _validate_api_key(cfg, "RESPONSE_MODEL", "groq", "GROQ_API_KEY"),
       _validate_api_key(cfg, "TTS_MODEL", "openai", "OPENAI_API_KEY"),
       _validate_api_key(cfg, "TTS_MODEL", "deepgram", "DEEPGRAM_API_KEY"),
       _validate_api_key(cfg, "TTS_MODEL", "elevenlabs", "ELEVENLABS_API_KEY"),
       _validate_api_key(cfg, "TTS_MODEL", "cartesia", "CARTESIA_API_KEY"),
       _validate_api_key(cfg, "TTS_MODEL", "local", "LOCAL_MODEL_PATH") >>

KeyChecks(cfg) ==
    << _validate_api_key(cfg, "TRANSCRIPTION_MODEL", "openai", "OPENAI_API_KEY"),
       _validate_api_key(cfg, "TRANSCRIPTION_MODEL", "groq", "GROQ_API_KEY"),
       _validate_api_key(cfg, "TRANSCRIPTION_MODEL", "deepgram", "DEEPGRAM_API_KEY"),
       _validate_api_key(cfg, "RESPONSE_MODEL", "openai", "OPENAI_API_KEY"),
       _validate_api_key(cfg, "RESPONSE_MODEL", "groq", "GROQ_API_KEY"),
       _validate_api_key(cfg, "TTS_MODEL", "openai", "OPENAI_API_KEY"),
       _validate_api_key(cfg, "TTS_MODEL", "deepgram", "DEEPGRAM_API_KEY"),
       _validate_api_key(cfg, "TTS_MODEL", "elevenlabs", "ELEVENLABS_API_KEY"),
       _validate_api_key(cfg, "TTS_MODEL", "cartesia", "CARTESIA_API_KEY") >>

\* Variant: the credential checks run before the domain checks.
Statements_KeysFirst(cfg) == KeyChecks(cfg) \o DomainChecks(cfg)

Statements(cfg) == DomainChecks(cfg) \o KeyChecks(cfg)

\* Exception propagation through a straight-line body: statements run in
\* order, the first one that raises ends the call and its exception is the
\* call's; nothing after it runs.
RECURSIVE Propagate(_)
Propagate(stmts) ==
    IF stmts = <<>> THEN <<>>
    ELSE IF Head(stmts) # <<>> THEN Head(stmts)
    ELSE Propagate(Tail(stmts))

\* What Config.validate_config() raises on the registry cfg.
validate_config_raises(cfg) == Propagate(Statements(cfg))

\* ------------------------------------------------------------------------
\* Actions

\* Variant: another TTS literal on line 26.
LoadConfig_OtherTTS ==
    /\ pc = "start"
    /\ Config' = ClassBody(environ, DEFAULT_TRANSCRIPTION_MODEL,
                           DEFAULT_RESPONSE_MODEL, "elevenlabs")
    /\ pc' = "loaded"
    /\ UNCHANGED <<environ, calls, raised, prev>>

\* Import of the module: the class body runs and defines the attributes.
LoadConfig ==
    /\ pc = "start"
    /\ Config' = ClassBody(environ, DEFAULT_TRANSCRIPTION_MODEL,
                           DEFAULT_RESPONSE_MODEL, DEFAULT_TTS_MODEL)
    /\ pc' = "loaded"
    /\ UNCHANGED <<environ, calls, raised, prev>>

\* Variant: a failed domain check falls back to the compiled-in selection.
validate_config_Repairing ==
    /\ pc = "loaded"
    /\ calls < MaxCalls
    /\ raised' = validate_config_raises(Config)
    /\ prev' = raised
    /\ calls' = calls + 1
    /\ Config' = IF Propagate(DomainChecks(Config)) # <<>>
                 THEN [Config EXCEPT !.TRANSCRIPTION_MODEL = DEFAULT_TRANSCRIPTION_MODEL,
                                     !.RESPONSE_MODEL = DEFAULT_RESPONSE_MODEL,
                                     !.TTS_MODEL = DEFAULT_TTS_MODEL]
                 ELSE Config
    /\ UNCHANGED <<environ, pc>>

\* Variant: a missing credential is stored back as the empty string.
validate_config_Normalising ==
    /\ pc = "loaded"
    /\ calls < MaxCalls
    /\ raised' = validate_config_raises(Config)
    /\ prev' = raised
    /\ calls' = calls + 1
    /\ Config' = [a \in DOMAIN Config |->
                    IF a \in KeyNames /\ Config[a] = None THEN "" ELSE Config[a]]
    /\ UNCHANGED <<environ, pc>>

\* One invocation of Config.validate_config().  It reads attributes and
\* either returns or raises; it assigns nothing.
validate_config ==
    /\ pc = "loaded"
    /\ calls < MaxCalls
    /\ raised' = validate_config_raises(Config)
    /\ prev' = raised
    /\ calls' = calls + 1
    /\ UNCHANGED <<environ, Config, pc>>

\* ------------------------------------------------------------------------
\* Specification of the program as written

Init ==
    /\ environ \in Environments
    /\ Config = [a \in {} |-> None]
    /\ pc = "start"
    /\ calls = 0
    /\ raised = <<>>
    /\ prev = <<>>

Next == LoadConfig \/ validate_config

Spec == Init /\ [][Next]_vars

\* Specification of the validation routine over every registry: the state
\* right after the class body ran, for every choice of the three
\* model-selection literals of lines 24-26 (in or out of their domains) and
\* every environment.
ModelChoices(options) == Range(options) \cup OutOfDomain

InitAny ==
    /\ environ \in Environments
    /\ \E t \in ModelChoices(TRANSCRIPTION_OPTIONS),
          r \in ModelChoices(RESPONSE_OPTIONS),
          s \in ModelChoices(TTS_OPTIONS) :
            Config = ClassBody(environ, t, r, s)
    /\ pc = "loaded"
    /\ calls = 0
    /\ raised = <<>>
    /\ prev = <<>>

NextAny == validate_config

SpecAny == InitAny /\ [][NextAny]_vars

\* ------------------------------------------------------------------------
\* Vocabulary of the properties: the two error kinds, the enumerated
\* domains and the credential rule table, written down independently of
\* validate_config's statements.

Fields == <<"TRANSCRIPTION_MODEL", "RESPONSE_MODEL", "TTS_MODEL">>

AllowedValues(field) ==
    CASE field = "TRANSCRIPTION_MODEL" ->
            {"openai", "groq", "deepgram", "fastwhisperapi", "local"}
      [] field = "RESPONSE_MODEL" ->
            {"openai", "groq", "ollama", "local"}
      [] field = "TTS_MODEL" ->
            {"openai", "deepgram", "elevenlabs", "melotts", "cartesia",
             "local", "piper"}

\* (field, providerValue, credentialName), in rule order
RuleTable ==
    << <<"TRANSCRIPTION_MODEL", "openai", "OPENAI_API_KEY">>,
       <<"TRANSCRIPTION_MODEL", "groq", "GROQ_API_KEY">>,
       <<"TRANSCRIPTION_MODEL", "deepgram", "DEEPGRAM_API_KEY">>,
       <<"RESPONSE_MODEL", "openai", "OPENAI_API_KEY">>,
       <<"RESPONSE_MODEL", "groq", "GROQ_API_KEY">>,
       <<"TTS_MODEL", "openai", "OPENAI_API_KEY">>,
       <<"TTS_MODEL", "deepgram", "DEEPGRAM_API_KEY">>,
       <<"TTS_MODEL", "elevenlabs", "ELEVENLABS_API_KEY">>,
       <<"TTS_MODEL", "cartesia", "CARTESIA_API_KEY">> >>

\* An error is recognised by the shape of its message.
IsInvalidProviderSelection(m) == Len(m) >= 3 /\ m[1] = "Invalid "
IsMissingCredential(m) == Len(m) = 4 /\ m[2] = " is required for "
MissingCredential(credential, provider) ==
    <<credential, " is required for ", provider, " models">>
NamedField(m) == m[2]
NamedAllowed(m) == Range(SubSeq(m, 4, Len(m)))

Called == pc = "loaded" /\ calls >= 1
Succeeded == raised = <<>>
Absent(name) == Config[name] \in {None, ""}
InDomain(i) == Config[Fields[i]] \in AllowedValues(Fields[i])
AllInDomain == \A i \in 1..3 : InDomain(i)
Selected(k) == Config[RuleTable[k][1]] = RuleTable[k][2]
Violated(k) == Selected(k) /\ Absent(RuleTable[k][3])
Rules == 1..Len(RuleTable)
AllKeysAbsent == \A n \in KeyNames : Absent(n)

\* ------------------------------------------------------------------------
\* C1: when the three fields are in their domains and every credential
\* the rule table requires for the selected values is present and
\* non-empty, validate_config returns without raising.
C1_ValidAccepted ==
    (Called /\ AllInDomain /\ \A k \in Rules : ~Violated(k)) => Succeeded

C1_Witness ==
    /\ Called /\ AllInDomain /\ Succeeded
    /\ Config.TTS_MODEL = "cartesia" /\ Config.TRANSCRIPTION_MODEL = "groq"
    /\ Absent("OPENAI_API_KEY") /\ Absent("DEEPGRAM_API_KEY")

\* C2 as stated: every field that is out of its domain is the field the
\* InvalidProviderSelection error names, whatever the other fields hold.
C2_EveryOffenderNamed ==
    Called =>
        \A i \in 1..3 : ~InDomain(i) =>
            /\ Len(raised) = 1
            /\ IsInvalidProviderSelection(raised[1])
            /\ NamedField(raised[1]) = Fields[i]

\* C2 amended: when some field is out of its domain the call fails with an
\* InvalidProviderSelection error that names the first such field in the
\* order transcription, response, TTS.
C2_FirstOffenderNamed ==
    Called =>
        \A i \in 1..3 : (~InDomain(i) /\ \A j \in 1..(i-1) : InDomain(j)) =>
            /\ Len(raised) = 1
            /\ IsInvalidProviderSelection(raised[1])
            /\ NamedField(raised[1]) = Fields[i]

C2_Witness ==
    /\ Called /\ InDomain(1) /\ InDomain(2) /\ ~InDomain(3)
    /\ Len(raised) = 1 /\ NamedField(raised[1]) = "TTS_MODEL"
    /\ AllKeysAbsent

\* C3: with the three fields in their domains and some rule violated, the
\* call fails with MissingCredential(credentialName, providerValue) of a
\* violated rule; transcription "openai" without OPENAI_API_KEY gives
\* MissingCredential("OPENAI_API_KEY", "openai"), and deepgram / openai /
\* elevenlabs with only ELEVENLABS_API_KEY unset gives
\* MissingCredential("ELEVENLABS_API_KEY", "elevenlabs").
C3_MissingCredentialReported ==
    (Called /\ AllInDomain) =>
        /\ (\E k \in Rules : Violated(k)) =>
                \E k \in Rules :
                    /\ Violated(k)
                    /\ raised = <<MissingCredential(RuleTable[k][3], RuleTable[k][2])>>
        /\ (Config.TRANSCRIPTION_MODEL = "openai" /\ Absent("OPENAI_API_KEY")) =>
                raised = <<MissingCredential("OPENAI_API_KEY", "openai")>>
        /\ (/\ Config.TRANSCRIPTION_MODEL = "deepgram"
            /\ Config.RESPONSE_MODEL = "openai"
            /\ Config.TTS_MODEL = "elevenlabs"
            /\ ~Absent("DEEPGRAM_API_KEY") /\ ~Absent("OPENAI_API_KEY")
            /\ Absent("ELEVENLABS_API_KEY")) =>
                raised = <<MissingCredential("ELEVENLABS_API_KEY", "elevenlabs")>>

C3_Witness ==
    /\ Called
    /\ Config.TRANSCRIPTION_MODEL = "deepgram"
    /\ Config.RESPONSE_MODEL = "openai"
    /\ Config.TTS_MODEL = "elevenlabs"
    /\ ~Absent("DEEPGRAM_API_KEY") /\ ~Absent("OPENAI_API_KEY")
    /\ Config.ELEVENLABS_API_KEY = ""
    /\ raised = <<MissingCredential("ELEVENLABS_API_KEY", "elevenlabs")>>

\* C4 as stated: with TTS set to a value that has no rule ("local",
\* "melotts", "piper"), transcription and response at their defaults and
\* every credential absent, the call succeeds.
NoRuleTTS == {"local", "melotts", "piper"}

AtDefaultsWithNoRuleTTS ==
    /\ Config.TRANSCRIPTION_MODEL = DEFAULT_TRANSCRIPTION_MODEL
    /\ Config.RESPONSE_MODEL = DEFAULT_RESPONSE_MODEL
    /\ Config.TTS_MODEL \in NoRuleTTS

C4_SucceedsWithNoCredentials ==
    (Called /\ AtDefaultsWithNoRuleTTS /\ AllKeysAbsent) => Succeeded

\* C4 amended: with TTS set to "local", "melotts" or "piper" and
\* transcription and response at their defaults, the TTS value requires no
\* credential: the call succeeds when DEEPGRAM_API_KEY and OPENAI_API_KEY
\* (required by the defaults) are present and every other credential is
\* absent, and with every credential absent it fails with
\* MissingCredential("DEEPGRAM_API_KEY", "deepgram").
C4_NoCredentialForTTS ==
    (Called /\ AtDefaultsWithNoRuleTTS) =>
        /\ (~Absent("DEEPGRAM_API_KEY") /\ ~Absent("OPENAI_API_KEY")) => Succeeded
        /\ AllKeysAbsent =>
                raised = <<MissingCredential("DEEPGRAM_API_KEY", "deepgram")>>

C4_Witness ==
    /\ Called /\ AtDefaultsWithNoRuleTTS /\ Succeeded
    /\ Config.TTS_MODEL = "local"
    /\ \A n \in KeyNames \ {"DEEPGRAM_API_KEY", "OPENAI_API_KEY"} : Config[n] = None

\* C5 as stated: an InvalidProviderSelection error identifies the field
\* name, the offending value the field holds, and the allowed set.
C5_ErrorCarriesValue ==
    (Called /\ Len(raised) = 1 /\ IsInvalidProviderSelection(raised[1])) =>
        LET m == raised[1] IN
        /\ NamedField(m) \in Range(Fields)
        /\ Config[NamedField(m)] \in Range(m)
        /\ NamedAllowed(m) = AllowedValues(NamedField(m))

\* C5 amended: an InvalidProviderSelection error identifies the name of
\* the offending field and the allowed set of values for that field (the
\* offending value itself is not part of the error).
C5_ErrorCarriesFieldAndAllowed ==
    (Called /\ Len(raised) = 1 /\ IsInvalidProviderSelection(raised[1])) =>
        LET m == raised[1] IN
        /\ NamedField(m) \in Range(Fields)
        /\ Config[NamedField(m)] \notin AllowedValues(NamedField(m))
        /\ NamedAllowed(m) = AllowedValues(NamedField(m))

C5_Witness ==
    /\ Called /\ Len(raised) = 1 /\ IsInvalidProviderSelection(raised[1])
    /\ NamedField(raised[1]) = "RESPONSE_MODEL"
    /\ Config.RESPONSE_MODEL = "bogus"

\* C6: two invocations in a row on an unchanged registry have the same
\* outcome: both return, or both raise the same error.
C6_Idempotent == (pc = "loaded" /\ calls >= 2) => raised = prev

C6_Witness ==
    /\ calls >= 2 /\ Len(raised) = 1 /\ raised = prev
    /\ IsMissingCredential(raised[1])

\* C7: with the three fields in their domains, the call succeeds exactly
\* when every rule whose field holds its provider value has a non-empty
\* credential; the outcome does not change when a credential no selected
\* rule names, PIPER_SERVER_URL or LOCAL_MODEL_PATH is given another value.
RequiredNames == {RuleTable[k][3] : k \in {j \in Rules : Selected(j)}}

C7_RequiredIffSelected ==
    (Called /\ AllInDomain) =>
        /\ Succeeded <=> \A k \in Rules : Selected(k) => ~Absent(RuleTable[k][3])
        /\ \A n \in EnvNames \ RequiredNames :
              \A v \in (IF n \in KeyNames THEN KeyValues ELSE PathValues) :
                 validate_config_raises([Config EXCEPT ![n] = v]) = raised

C7_Witness ==
    /\ Called /\ AllInDomain /\ ~Succeeded
    /\ Config.TTS_MODEL = "deepgram" /\ Config.TRANSCRIPTION_MODEL = "local"
    /\ Config.RESPONSE_MODEL = "ollama"
    /\ Absent("DEEPGRAM_API_KEY") /\ ~Absent("OPENAI_API_KEY")

\* C8: the checks run in a fixed order and the call stops at the first
\* violation: if a field is out of its domain the one error reported is
\* InvalidProviderSelection for the first such field (transcription,
\* response, TTS) even when a credential is missing too; otherwise it is
\* MissingCredential for the first violated rule of the table; otherwise
\* there is no error.  Never more than one error is reported.
FirstOffender == CHOOSE i \in 1..3 : ~InDomain(i) /\ \A j \in 1..(i-1) : InDomain(j)
FirstViolated == CHOOSE k \in Rules : Violated(k) /\ \A j \in 1..(k-1) : ~Violated(j)

C8_FirstViolationOnly ==
    Called =>
        /\ Len(raised) <= 1
        /\ IF ~AllInDomain
           THEN /\ Len(raised) = 1
                /\ IsInvalidProviderSelection(raised[1])
                /\ NamedField(raised[1]) = Fields[FirstOffender]
           ELSE IF \E k \in Rules : Violated(k)
           THEN raised = <<MissingCredential(RuleTable[FirstViolated][3],
                                             RuleTable[FirstViolated][2])>>
           ELSE Succeeded

C8_Witness ==
    /\ Called /\ ~InDomain(2) /\ ~InDomain(3) /\ InDomain(1)
    /\ Config.TRANSCRIPTION_MODEL = "openai" /\ Absent("OPENAI_API_KEY")
    /\ Len(raised) = 1 /\ NamedField(raised[1]) = "RESPONSE_MODEL"

\* C9: validate_config has no side effects: whether it returns or raises,
\* every attribute of the registry and the environment hold the same
\* values after the call as before; once loaded the registry never changes.
C9_NoSideEffects ==
    [][pc = "loaded" => (Config' = Config /\ environ' = environ)]_vars

C9_Witness ==
    /\ calls >= 2 /\ Len(prev) = 1 /\ Len(raised) = 1
    /\ IsInvalidProviderSelection(raised[1])
    /\ Config = ClassBody(environ, "bogus", Config.RESPONSE_MODEL, Config.TTS_MODEL)

\* C10: with the compiled-in selection (deepgram, openai, openai) the load
\* always completes and stores each variable as found; validate_config
\* then succeeds exactly when DEEPGRAM_API_KEY and OPENAI_API_KEY are both
\* non-empty; it reports DEEPGRAM_API_KEY first when that one is missing,
\* and the other three credentials have no influence.
C10_Defaults ==
    /\ pc = "start" => ENABLED LoadConfig
    /\ pc = "loaded" =>
          /\ Config.TRANSCRIPTION_MODEL = "deepgram"
          /\ Config.RESPONSE_MODEL = "openai"
          /\ Config.TTS_MODEL = "openai"
          /\ \A n \in EnvNames : Config[n] = environ[n]
    /\ Called =>
          raised =
            IF environ["DEEPGRAM_API_KEY"] \in {None, ""}
            THEN <<MissingCredential("DEEPGRAM_API_KEY", "deepgram")>>
            ELSE IF environ["OPENAI_API_KEY"] \in {None, ""}
            THEN <<MissingCredential("OPENAI_API_KEY", "openai")>>
            ELSE <<>>

C10_Witness ==
    /\ Called /\ Succeeded
    /\ environ["GROQ_API_KEY"] = None
    /\ environ["ELEVENLABS_API_KEY"] = None
    /\ environ["CARTESIA_API_KEY"] = None

====
